---- MODULE Spec2Model ----
(***************************************************************************)
(* The embedding bridge of src/src/lib.rs: the scalar-function bridge      *)
(* (the closure installed by ExecutionContext::register_udf), the          *)
(* type-dispatch marshaller (to_py and the to_py_numpy macro) and          *)
(* ExecutionContext::sql, together with the scripting runtime's            *)
(* exclusivity lock (the GIL taken by pyo3::Python::acquire_gil).          *)
(*                                                                         *)
(* Two specifications share the variables:                                 *)
(*   Spec         the engine evaluating the registered UDF during sql,     *)
(*                on the caller's thread or on worker threads;             *)
(*   SpecMarshal  sql from the engine's answer to the marshalled mapping.  *)
(***************************************************************************)
EXTENDS Integers, Sequences, FiniteSets, TLC

(* Bounds of the model. *)
MaxLen == 3
MaxRows == 1

(* ---------------------------------------------------------------- data *)

(* f64 payloads. *)
Floats == {0, 1}

Caller == "caller"
Workers == {"w1", "w2"}
Threads == {Caller} \cup Workers
NoThread == "nobody"

SeqsUpTo(S, n) == UNION {[1..k -> S] : k \in 0..n}

(* One slot of an arrow array: the validity bit and the stored value. *)
Slot(valid, v) == [valid |-> valid, value |-> v]
NullSlot == Slot(FALSE, 0)
Slots == {Slot(TRUE, v) : v \in Floats} \cup {NullSlot}

(* The arrays the engine hands to the closure as args[0]. *)
Float64Arrays == {[tag |-> "Float64", data |-> d] : d \in SeqsUpTo(Slots, MaxLen)}
OtherArray == [tag |-> "Int64", data |-> <<>>]
EmptyArray == [tag |-> "Float64", data |-> <<>>]

(* What any.call(...) gives: a Python object, or a raised exception. *)
PyResults ==
    {[kind |-> k, val |-> v] : k \in {"float", "int"}, v \in Floats}
        \cup {[kind |-> "str", val |-> 0], [kind |-> "raise", val |-> 0]}
Callables == [Floats -> PyResults]

(* Mutant of extract_f64: the extracted value is lost. *)
extract_f64_zeroed(obj) ==
    IF obj.kind \in {"float", "int"}
    THEN [ok |-> TRUE, val |-> 0]
    ELSE [ok |-> FALSE, val |-> 0]

(* n.extract::<f64>(): a float is taken as it is, an int is converted, any
   other object is an extraction error. *)
extract_f64(obj) ==
    IF obj.kind \in {"float", "int"}
    THEN [ok |-> TRUE, val |-> obj.val]
    ELSE [ok |-> FALSE, val |-> 0]

(* Results of the closure, of to_py and of sql. *)
NoResult == [kind |-> "none", data |-> <<>>, msg |-> ""]
OkResult(d) == [kind |-> "ok", data |-> d, msg |-> ""]
ErrResult(m) == [kind |-> "err", data |-> <<>>, msg |-> m]
PanicResult == [kind |-> "panic", data |-> <<>>, msg |-> "unwrap on Err"]

VARIABLES
    udf,           \* the engine's registry: the callables registered (func)
    gil,           \* the runtime lock: [holder, depth]
    sqlState,      \* where the caller's sql call stands
    mode,          \* how the engine runs the plan: "inline" or "parallel"
    pc,            \* per thread: position in the closure
    pending,       \* per thread: the batches the engine still has to evaluate
    args,          \* per thread: the closure's argument array
    i,             \* per thread: the loop index (1-based)
    builder,       \* per thread: the Float64Builder's slots
    result,        \* per thread: what the closure returned
    calls,         \* per thread: the indices the callable was invoked on, in order
    acquired,      \* per thread: acquisitions of the lock in this closure call
    batches,       \* the engine's answer to sql: [ok, list of record batches]
    column_index,  \* to_py: the loop index (1-based)
    map,           \* to_py: the HashMap, a function from field names to host arrays
    mpc,           \* to_py: position
    gilTaken,      \* to_py: acquisitions of the lock in this call
    sqlResult      \* what sql returned

bridgeVars == <<udf, mode, pc, pending, args, i, builder, result, calls, acquired>>
marshalVars == <<batches, column_index, map, mpc, gilTaken, sqlResult>>
vars == <<udf, gil, sqlState, mode, pc, pending, args, i, builder, result, calls,
          acquired, batches, column_index, map, mpc, gilTaken, sqlResult>>

(* ------------------------------------------------------- the runtime lock *)

(* Mutant of GilAvailable: the acquisition does not wait for the holder. *)
GilAvailable_nowait(g, t) == TRUE

(* Python::acquire_gil() returns once the calling thread holds the lock: at
   once when it holds it already (the acquisition nests), else when it is free. *)
GilAvailable(g, t) == g.holder = NoThread \/ g.holder = t

GilAcquire(g, t) == [holder |-> t, depth |-> g.depth + 1]

(* Mutant of GilRelease: the guard is leaked. *)
GilRelease_leaked(g) == g

(* Dropping the GILGuard. *)
GilRelease(g) ==
    IF g.depth = 1
    THEN [holder |-> NoThread, depth |-> 0]
    ELSE [holder |-> g.holder, depth |-> g.depth - 1]

(* ------------------------------------------- the scalar-function bridge *)

(* `func`, the callable the closure captured. *)
func == CHOOSE f \in udf : TRUE

(* Mutant of IsNull: the validity bit is not consulted. *)
IsNull_never(values, k) == FALSE

(* values.is_null(i) *)
IsNull(values, k) == ~values[k].valid

(* Mutant of CallOutcome: a raised exception is swallowed and the loop goes on. *)
CallOutcome_swallowed(obj) ==
    IF obj.kind = "raise" THEN "value"
    ELSE IF extract_f64(obj).ok THEN "value"
    ELSE "panic"

(* The match on the callable's answer: Err(data) becomes an ExecutionError
   returned by `?`, Ok(n) is extracted and unwrapped (a panic when the
   extraction fails), and the extracted f64 is appended. *)
CallOutcome(obj) ==
    IF obj.kind = "raise" THEN "err"
    ELSE IF extract_f64(obj).ok THEN "value"
    ELSE "panic"

(* How the engine cuts the rows of the queried column into batches. *)
FirstRows(a, cut) == [tag |-> a.tag, data |-> SubSeq(a.data, 1, cut)]
LastRows(a, cut) == [tag |-> a.tag, data |-> SubSeq(a.data, cut + 1, Len(a.data))]
Chunks(a, cut) == IF cut = 0 THEN <<a>> ELSE <<FirstRows(a, cut), LastRows(a, cut)>>

EngineInputs == Float64Arrays \cup {OtherArray}

IdleThreads == [t \in Threads |-> "idle"]

BridgeReset ==
    /\ mode' = "none"
    /\ pc' = IdleThreads
    /\ pending' = [t \in Threads |-> <<>>]
    /\ args' = [t \in Threads |-> EmptyArray]
    /\ i' = [t \in Threads |-> 1]
    /\ builder' = [t \in Threads |-> <<>>]
    /\ result' = [t \in Threads |-> NoResult]
    /\ calls' = [t \in Threads |-> <<>>]
    /\ acquired' = [t \in Threads |-> 0]

(* register_udf(name, func): the closure is stored in the engine's registry. *)
RegisterUdf ==
    /\ sqlState = "idle"
    /\ \E f \in Callables : udf' = {f}
    /\ UNCHANGED <<gil, sqlState, mode, pc, pending, args, i, builder, result,
                   calls, acquired>>
    /\ UNCHANGED marshalVars

(* sql(query, batch_size) on a query that evaluates the UDF, the plan having a
   single partition: self.ctx.sql runs it on the calling thread, batch after
   batch.  The caller came from the scripting runtime and holds its lock. *)
SqlInline ==
    /\ sqlState = "idle"
    /\ udf # {}
    /\ sqlState' = "executing"
    /\ mode' = "inline"
    /\ \E a \in EngineInputs : \E cut \in 0..Len(a.data) :
            pending' = [pending EXCEPT ![Caller] = Chunks(a, cut)]
    /\ pc' = [pc EXCEPT ![Caller] = "ready"]
    /\ UNCHANGED <<udf, gil, args, i, builder, result, calls, acquired>>
    /\ UNCHANGED marshalVars

(* The same with a plan of several partitions: the engine evaluates each on a
   worker thread of its own and the calling thread waits for all of them. *)
SqlParallel ==
    /\ sqlState = "idle"
    /\ udf # {}
    /\ sqlState' = "executing"
    /\ mode' = "parallel"
    /\ \E a \in EngineInputs : \E cut \in 0..Len(a.data) :
            pending' = [pending EXCEPT !["w1"] = <<FirstRows(a, cut)>>,
                                      !["w2"] = <<LastRows(a, cut)>>]
    /\ pc' = [pc EXCEPT !["w1"] = "ready", !["w2"] = "ready"]
    /\ UNCHANGED <<udf, gil, args, i, builder, result, calls, acquired>>
    /\ UNCHANGED marshalVars

(* The closure is entered with the next batch: args[0] is downcast to a
   Float64Array, and the closure returns an error when it is none. *)
InvokeDowncast(t) ==
    /\ pc[t] = "ready"
    /\ LET a == Head(pending[t]) IN
        /\ args' = [args EXCEPT ![t] = a]
        /\ pending' = [pending EXCEPT ![t] = Tail(pending[t])]
        /\ i' = [i EXCEPT ![t] = 1]
        /\ builder' = [builder EXCEPT ![t] = <<>>]
        /\ calls' = [calls EXCEPT ![t] = <<>>]
        /\ acquired' = [acquired EXCEPT ![t] = 0]
        /\ IF a.tag = "Float64"
           THEN /\ pc' = [pc EXCEPT ![t] = "acquire"]
                /\ result' = [result EXCEPT ![t] = NoResult]
           ELSE /\ pc' = [pc EXCEPT ![t] = "done"]
                /\ result' = [result EXCEPT ![t] = ErrResult("Bla.")]
    /\ UNCHANGED <<udf, gil, sqlState, mode>>
    /\ UNCHANGED marshalVars

(* let gil = pyo3::Python::acquire_gil(); *)
InvokeAcquireGil(t) ==
    /\ pc[t] = "acquire"
    /\ GilAvailable(gil, t)
    /\ gil' = GilAcquire(gil, t)
    /\ acquired' = [acquired EXCEPT ![t] = @ + 1]
    /\ pc' = [pc EXCEPT ![t] = "loop"]
    /\ UNCHANGED <<udf, sqlState, mode, pending, args, i, builder, result, calls>>
    /\ UNCHANGED marshalVars

(* One turn of `for i in 0..values.len()`. *)
InvokeElement(t) ==
    /\ pc[t] = "loop"
    /\ i[t] <= Len(args[t].data)
    /\ LET values == args[t].data
           k == i[t]
           obj == func[values[k].value]
           what == IF IsNull(values, k) THEN "null" ELSE CallOutcome(obj)
       IN
        /\ calls' = [calls EXCEPT ![t] = IF what = "null" THEN @ ELSE Append(@, k)]
        /\ builder' = [builder EXCEPT ![t] =
                IF what = "null" THEN Append(@, NullSlot)
                ELSE IF what = "value" THEN Append(@, Slot(TRUE, extract_f64(obj).val))
                ELSE @]
        /\ IF what \in {"null", "value"}
           THEN /\ i' = [i EXCEPT ![t] = @ + 1]
                /\ UNCHANGED <<pc, result, gil>>
           ELSE /\ pc' = [pc EXCEPT ![t] = "done"]
                /\ result' = [result EXCEPT ![t] =
                        IF what = "err" THEN ErrResult("PyErr") ELSE PanicResult]
                /\ gil' = GilRelease(gil)
                /\ UNCHANGED i
    /\ UNCHANGED <<udf, sqlState, mode, pending, args, acquired>>
    /\ UNCHANGED marshalVars

(* Ok(Arc::new(builder.finish())): the guard is dropped on the way out, and
   the engine goes on with the thread's next batch when it has one. *)
InvokeFinish(t) ==
    /\ pc[t] = "loop"
    /\ i[t] > Len(args[t].data)
    /\ result' = [result EXCEPT ![t] = OkResult(builder[t])]
    /\ gil' = GilRelease(gil)
    /\ pc' = [pc EXCEPT ![t] = IF pending[t] = <<>> THEN "done" ELSE "ready"]
    /\ UNCHANGED <<udf, sqlState, mode, pending, args, i, builder, calls, acquired>>
    /\ UNCHANGED marshalVars

Participants == IF mode = "inline" THEN {Caller} ELSE Workers

(* self.ctx.sql returns to sql once every thread of the plan is through. *)
SqlCollect ==
    /\ sqlState = "executing"
    /\ mode \in {"inline", "parallel"}
    /\ \A t \in Participants : pc[t] = "done"
    /\ sqlState' =
            IF \E t \in Participants : result[t].kind = "panic" THEN "panic"
            ELSE IF \E t \in Participants : result[t].kind = "err" THEN "err"
            ELSE "ok"
    /\ UNCHANGED <<udf, gil, mode, pc, pending, args, i, builder, result, calls,
                   acquired>>
    /\ UNCHANGED marshalVars

(* sql returns to the scripting runtime, which may call again. *)
SqlReturn ==
    /\ sqlState \in {"ok", "err"}
    /\ mode \in {"inline", "parallel"}
    /\ sqlState' = "idle"
    /\ BridgeReset
    /\ UNCHANGED <<udf, gil>>
    /\ UNCHANGED marshalVars

MarshalIdle ==
    /\ batches = [ok |-> TRUE, list |-> <<>>]
    /\ column_index = 1
    /\ map = <<>>
    /\ mpc = "idle"
    /\ gilTaken = 0
    /\ sqlResult = NoResult

Init ==
    /\ udf = {}
    /\ gil = [holder |-> Caller, depth |-> 1]
    /\ sqlState = "idle"
    /\ mode = "none"
    /\ pc = IdleThreads
    /\ pending = [t \in Threads |-> <<>>]
    /\ args = [t \in Threads |-> EmptyArray]
    /\ i = [t \in Threads |-> 1]
    /\ builder = [t \in Threads |-> <<>>]
    /\ result = [t \in Threads |-> NoResult]
    /\ calls = [t \in Threads |-> <<>>]
    /\ acquired = [t \in Threads |-> 0]
    /\ MarshalIdle

Next ==
    \/ RegisterUdf
    \/ SqlInline
    \/ SqlParallel
    \/ \E t \in Threads : InvokeDowncast(t)
    \/ \E t \in Threads : InvokeAcquireGil(t)
    \/ \E t \in Threads : InvokeElement(t)
    \/ \E t \in Threads : InvokeFinish(t)
    \/ SqlCollect
    \/ SqlReturn

Spec == Init /\ [][Next]_vars

(* --------------------------------------------- the type-dispatch marshaller *)

(* The arms of the match in to_py that call to_py_numpy!. *)
SupportedTypes ==
    {"Boolean", "Int8", "Int16", "Int32", "Int64", "UInt8", "UInt16", "UInt32",
     "UInt64", "Float32", "Float64"}

(* Types that reach the `other` arm. *)
OtherTypes == {"Utf8", "Date64"}

DataTypes == SupportedTypes \cup OtherTypes

(* Mutant of IsSupported: an arm for strings has been added. *)
IsSupported_utf8(data_type) == data_type \in SupportedTypes \cup {"Utf8"}

IsSupported(data_type) == data_type \in SupportedTypes

(* The columns of `rows` rows a batch may hold under one of `names`. *)
Columns(names, rows) ==
    {[name |-> n, data_type |-> ty, slots |-> d] :
        n \in names, ty \in DataTypes, d \in [1..rows -> Slots]}

(* Record batches of one or two columns of equal length (arrow builds no batch
   without a column).  Field names are taken up to renaming: the second column
   repeats the first one's name or not. *)
OneColumnBatches ==
    UNION {{<<c>> : c \in Columns({"a"}, rows)} : rows \in 0..MaxRows}
TwoColumnBatches ==
    UNION {{<<c, d>> : c \in Columns({"a"}, rows), d \in Columns({"a", "b"}, rows)} :
                rows \in 0..MaxRows}
RecordBatches == OneColumnBatches \cup TwoColumnBatches

(* What self.ctx.sql may answer with: no batch, one batch, or several (the
   batches after the first are never read). *)
BatchLists ==
    {<<>>} \cup {<<b>> : b \in RecordBatches} \cup {<<b, b>> : b \in OneColumnBatches}

(* The body of to_py_numpy! between acquire_gil and from_iter:
   values.push(casted.value(i)) for i in 0..len, validity never read. *)
RECURSIVE PushValues(_, _)
PushValues(slots, n) ==
    IF n = 0 THEN <<>> ELSE Append(PushValues(slots, n - 1), slots[n].value)

(* Mutant of to_py_numpy: the loop stops one element short. *)
to_py_numpy_short(column) ==
    IF column.slots = <<>> THEN <<>>
    ELSE PushValues(column.slots, Len(column.slots) - 1)

to_py_numpy(column) == PushValues(column.slots, Len(column.slots))

(* map.insert(name, value): a later insert under the same name replaces. *)
MapInsert(m, name, value) == (name :> value) @@ m

(* &batches[0] *)
record == batches.list[1]

(* let batches = wrap(self.ctx.sql(query, batch_size))?  -- the engine fails. *)
SqlEngineError ==
    /\ sqlState = "idle"
    /\ mode = "none"
    /\ batches' = [ok |-> FALSE, list |-> <<>>]
    /\ sqlResult' = ErrResult("ExecutionError")
    /\ sqlState' = "err"
    /\ UNCHANGED <<gil, column_index, map, mpc, gilTaken>>
    /\ UNCHANGED bridgeVars

(* ... the engine answers with its result batches. *)
SqlEngineOk ==
    /\ sqlState = "idle"
    /\ mode = "none"
    /\ \E list \in BatchLists : batches' = [ok |-> TRUE, list |-> list]
    /\ sqlState' = "collected"
    /\ UNCHANGED <<gil, column_index, map, mpc, gilTaken, sqlResult>>
    /\ UNCHANGED bridgeVars

(* to_py(&batches[0]) is entered; indexing an empty Vec panics. *)
SqlFirstBatch ==
    /\ sqlState = "collected"
    /\ IF batches.list = <<>>
       THEN /\ sqlState' = "panic"
            /\ sqlResult' = [kind |-> "panic", data |-> <<>>, msg |-> "index out of bounds"]
            /\ UNCHANGED <<column_index, map, mpc, gilTaken>>
       ELSE /\ sqlState' = "to_py"
            /\ mpc' = "column"
            /\ column_index' = 1
            /\ map' = <<>>
            /\ gilTaken' = 0
            /\ UNCHANGED sqlResult
    /\ UNCHANGED <<gil, batches>>
    /\ UNCHANGED bridgeVars

(* A column of a supported type: to_py_numpy! starts with acquire_gil. *)
ToPyAcquireGil ==
    /\ mpc = "column"
    /\ column_index <= Len(record)
    /\ IsSupported(record[column_index].data_type)
    /\ GilAvailable(gil, Caller)
    /\ gil' = GilAcquire(gil, Caller)
    /\ gilTaken' = gilTaken + 1
    /\ mpc' = "building"
    /\ UNCHANGED <<sqlState, batches, column_index, map, sqlResult>>
    /\ UNCHANGED bridgeVars

(* The rest of to_py_numpy!: the values are copied and handed to
   PyArray1::from_iter, the guard is dropped at the end of the macro's block,
   and to_py inserts the array under the field's name. *)
ToPyNumpy ==
    /\ mpc = "building"
    /\ LET column == record[column_index] IN
        map' = MapInsert(map, column.name, to_py_numpy(column))
    /\ gil' = GilRelease(gil)
    /\ column_index' = column_index + 1
    /\ mpc' = "column"
    /\ UNCHANGED <<sqlState, batches, gilTaken, sqlResult>>
    /\ UNCHANGED bridgeVars

(* The `other` arm: `value?` leaves to_py with the NotImplemented error, the
   map built so far is dropped, and sql passes the error on. *)
ToPyOther ==
    /\ mpc = "column"
    /\ column_index <= Len(record)
    /\ ~IsSupported(record[column_index].data_type)
    /\ sqlResult' = ErrResult(record[column_index].data_type)
    /\ sqlState' = "err"
    /\ map' = <<>>
    /\ mpc' = "done"
    /\ UNCHANGED <<gil, batches, column_index, gilTaken>>
    /\ UNCHANGED bridgeVars

(* Ok(map), which sql returns. *)
ToPyFinish ==
    /\ mpc = "column"
    /\ column_index > Len(record)
    /\ sqlResult' = OkResult(map)
    /\ sqlState' = "ok"
    /\ mpc' = "done"
    /\ UNCHANGED <<gil, batches, column_index, map, gilTaken>>
    /\ UNCHANGED bridgeVars

(* sql is back in the scripting runtime, which may call again. *)
SqlReturnMarshal ==
    /\ sqlState \in {"ok", "err"}
    /\ mode = "none"
    /\ sqlState' = "idle"
    /\ batches' = [ok |-> TRUE, list |-> <<>>]
    /\ column_index' = 1
    /\ map' = <<>>
    /\ mpc' = "idle"
    /\ gilTaken' = 0
    /\ sqlResult' = NoResult
    /\ UNCHANGED gil
    /\ UNCHANGED bridgeVars

NextMarshal ==
    \/ SqlEngineError
    \/ SqlEngineOk
    \/ SqlFirstBatch
    \/ ToPyAcquireGil
    \/ ToPyNumpy
    \/ ToPyOther
    \/ ToPyFinish
    \/ SqlReturnMarshal

SpecMarshal == Init /\ [][NextMarshal]_vars

(* ------------------------------------------------------------ properties *)

(* The closure has returned (or panicked) on args[t]. *)
Returned(t) == result[t].kind # "none"

(* The callable's answer on the element at index k of args[t]. *)
Answer(t, k) == func[args[t].data[k].value]

(* The callable returns normally with something float64 can be made of. *)
Succeeds(obj) == obj.kind \in {"float", "int"}

(* The non-null indices of an array's first n slots, ascending. *)
RECURSIVE NonNullIndices(_, _)
NonNullIndices(data, n) ==
    IF n = 0 THEN <<>>
    ELSE IF data[n].valid THEN Append(NonNullIndices(data, n - 1), n)
    ELSE NonNullIndices(data, n - 1)

(* C1: on a float64 array on which the callable succeeds at every non-null
   element, invoke returns an array of the input's length, null exactly where
   the input is null, holding callable(input[k]) at every other index k. *)
C1_InvokeMapsNonNulls ==
    \A t \in Threads :
        (/\ Returned(t)
         /\ args[t].tag = "Float64"
         /\ \A k \in 1..Len(args[t].data) :
                args[t].data[k].valid => Succeeds(Answer(t, k)))
        => /\ result[t].kind = "ok"
           /\ Len(result[t].data) = Len(args[t].data)
           /\ \A k \in 1..Len(args[t].data) :
                /\ result[t].data[k].valid <=> args[t].data[k].valid
                /\ args[t].data[k].valid =>
                        result[t].data[k].value = Answer(t, k).val

(* A batch value, null, value came back transformed, the null in place. *)
C1_Witness ==
    \E t \in Threads :
        /\ result[t].kind = "ok"
        /\ Len(args[t].data) = 3
        /\ args[t].data[1].valid /\ ~args[t].data[2].valid /\ args[t].data[3].valid
        /\ ~result[t].data[2].valid
        /\ result[t].data[1].value # args[t].data[1].value
        /\ result[t].data[3].value = Answer(t, 3).val

(* C2: once the callable has raised on an element of the batch, invoke
   returns an error and no array, wherever the element stood. *)
C2_RaiseFailsBatch ==
    \A t \in Threads :
        (\E n \in 1..Len(calls[t]) : Answer(t, calls[t][n]).kind = "raise")
        => /\ result[t].kind = "err"
           /\ result[t].data = <<>>

(* The callable raised on a later element, after results were appended. *)
C2_Witness ==
    \E t \in Threads :
        /\ result[t].kind = "err"
        /\ Len(calls[t]) >= 2
        /\ Len(builder[t]) >= 2
        /\ Answer(t, calls[t][Len(calls[t])]).kind = "raise"

(* C3: once the callable has returned something float64 cannot be made of,
   invoke returns an error value, as it does for a raised callable. *)
C3_BadResultIsAnError ==
    \A t \in Threads :
        (\E n \in 1..Len(calls[t]) : Answer(t, calls[t][n]).kind = "str")
        => result[t].kind = "err"

(* C7: within one invoke the callable is invoked in increasing index order,
   once for each non-null element up to and including the first failing one,
   never on a null element and never after a failure. *)
C7_CallOrder ==
    \A t \in Threads :
        LET nn == NonNullIndices(args[t].data, Len(args[t].data))
            c == calls[t]
        IN  /\ Len(c) <= Len(nn)
            /\ \A n \in 1..Len(c) : c[n] = nn[n]
            /\ \A n \in 1..(Len(c) - 1) : Succeeds(Answer(t, c[n]))
            /\ result[t].kind = "ok" => c = nn
            /\ (result[t].kind \in {"err", "panic"} /\ args[t].tag = "Float64")
                    => /\ c # <<>>
                       /\ ~Succeeds(Answer(t, c[Len(c)]))
            /\ (pc[t] = "loop" /\ c # <<>>) => c[Len(c)] < i[t]

(* A failure in the middle: a null before the failing element, skipped, and a
   non-null element after it, never reached. *)
C7_Witness ==
    \E t \in Threads :
        /\ result[t].kind \in {"err", "panic"}
        /\ calls[t] # <<>>
        /\ LET last == calls[t][Len(calls[t])] IN
            /\ \E k \in 1..(last - 1) : ~args[t].data[k].valid
            /\ \E k \in (last + 1)..Len(args[t].data) : args[t].data[k].valid

(* C8: invoke takes the lock once per batch, before the first invocation of
   the callable, and holds it until the batch is finished or aborted; two
   threads are never both inside a batch, and the callable is only invoked by
   the thread that holds the lock. *)
C8_LockPerBatch ==
    /\ \A t \in Threads :
        /\ pc[t] = "loop" => (gil.holder = t /\ acquired[t] = 1)
        /\ pc[t] = "acquire" => (acquired[t] = 0 /\ calls[t] = <<>>)
        /\ calls[t] # <<>> => acquired[t] = 1
        /\ (Returned(t) /\ args[t].tag = "Float64") => acquired[t] = 1
        /\ (t \in Workers /\ pc[t] # "loop") => gil.holder # t
    /\ \A t1, t2 \in Threads : (pc[t1] = "loop" /\ pc[t2] = "loop") => t1 = t2
    /\ gil.holder = Caller
    /\ gil.depth = IF pc[Caller] = "loop" THEN 2 ELSE 1

(* The second batch of a call is under way: its callable has been invoked
   twice under one acquisition. *)
C8_Witness ==
    /\ mode = "inline"
    /\ pc[Caller] = "loop"
    /\ Len(calls[Caller]) >= 2
    /\ acquired[Caller] = 1
    /\ gil = [holder |-> Caller, depth |-> 2]

(* C10: no state is reachable in which the caller of sql waits for a worker
   while the worker waits for the lock the caller holds. *)
C10_NoWaitCycle ==
    ~(/\ sqlState = "executing"
      /\ mode = "parallel"
      /\ gil.holder = Caller
      /\ \E w \in Workers : pc[w] = "acquire")

(* The columns of the marshalled batch and the mapping sql returned. *)
Marshalled == sqlState = "ok" /\ batches.ok /\ batches.list # <<>>

StoredValues(column) == [k \in 1..Len(column.slots) |-> column.slots[k].value]

(* C4, as claimed: every column of a supported type is found under its field
   name, with its length and its stored values. *)
C4_EveryColumnUnderItsName ==
    Marshalled =>
        \A j \in 1..Len(record) :
            /\ record[j].name \in DOMAIN sqlResult.data
            /\ sqlResult.data[record[j].name] = StoredValues(record[j])

(* C4, amended: the mapping holds one array per field name, and every column
   whose name no later column repeats is found under its name, with its length
   and its stored values. *)
C4_LastColumnUnderItsName ==
    Marshalled =>
        /\ DOMAIN sqlResult.data = {record[j].name : j \in 1..Len(record)}
        /\ \A j \in 1..Len(record) :
            (\A k \in (j + 1)..Len(record) : record[k].name # record[j].name)
            => /\ Len(sqlResult.data[record[j].name]) = Len(record[j].slots)
               /\ \A k \in 1..Len(record[j].slots) :
                    sqlResult.data[record[j].name][k] = record[j].slots[k].value

(* Two columns of one name and different values were marshalled. *)
C4_Witness ==
    /\ Marshalled
    /\ Len(record) = 2
    /\ record[1].name = record[2].name
    /\ Len(record[2].slots) >= 1
    /\ StoredValues(record[1]) # StoredValues(record[2])
    /\ sqlResult.data[record[2].name] = StoredValues(record[2])

(* The first column of an unsupported type. *)
FirstOther(rec) ==
    CHOOSE j \in 1..Len(rec) :
        /\ rec[j].data_type \notin SupportedTypes
        /\ \A k \in 1..(j - 1) : rec[k].data_type \in SupportedTypes

(* C5: a batch with a column of an unsupported type makes to_py fail with the
   error that names the (first such) type, and no mapping is returned,
   whatever columns stand before or after it. *)
C5_UnsupportedFailsWhole ==
    (/\ sqlState \in {"ok", "err"}
     /\ batches.ok
     /\ batches.list # <<>>
     /\ \E j \in 1..Len(record) : record[j].data_type \notin SupportedTypes)
    => /\ sqlResult.kind = "err"
       /\ sqlResult.data = <<>>
       /\ sqlResult.msg = record[FirstOther(record)].data_type

(* A supported column was converted before the unsupported one was met. *)
C5_Witness ==
    /\ sqlState = "err"
    /\ batches.ok
    /\ Len(record) = 2
    /\ record[1].data_type \in SupportedTypes
    /\ record[2].data_type \notin SupportedTypes
    /\ gilTaken = 1
    /\ sqlResult.msg = record[2].data_type

(* The engine's answer holds no row. *)
ZeroRows ==
    \A b \in 1..Len(batches.list) :
        \A j \in 1..Len(batches.list[b]) : batches.list[b][j].slots = <<>>

AllSupported ==
    \A b \in 1..Len(batches.list) :
        \A j \in 1..Len(batches.list[b]) :
            batches.list[b][j].data_type \in SupportedTypes

(* C6: when the engine's answer holds no row, be it without any batch, sql
   returns a mapping of arrays of length 0 and does not fail. *)
C6_ZeroRowsGiveEmptyArrays ==
    (/\ sqlState \in {"ok", "err", "panic"}
     /\ batches.ok
     /\ ZeroRows
     /\ AllSupported)
    => /\ sqlResult.kind = "ok"
       /\ \A n \in DOMAIN sqlResult.data : sqlResult.data[n] = <<>>

(* to_py has been entered on a batch. *)
InToPy == sqlState \in {"to_py", "ok", "err"} /\ batches.ok /\ batches.list # <<>>

(* C9, as claimed: a to_py call takes the lock once, however many columns the
   batch has (stated for the calls that return a mapping). *)
C9_OneAcquisitionPerCall ==
    (InToPy /\ sqlState = "ok") => gilTaken = 1

(* C9, amended: one acquisition per column converted, held while that
   column's array is built and released before the next column. *)
C9_OneAcquisitionPerColumn ==
    InToPy =>
        /\ gilTaken = (column_index - 1) + (IF mpc = "building" THEN 1 ELSE 0)
        /\ gil.holder = Caller
        /\ gil.depth = IF mpc = "building" THEN 2 ELSE 1
        /\ sqlState = "ok" => gilTaken = Len(record)
        /\ sqlState = "err" => gilTaken = FirstOther(record) - 1

(* Both columns of a batch were converted, each under its own acquisition. *)
C9_Witness ==
    /\ InToPy
    /\ sqlState = "ok"
    /\ Len(record) = 2
    /\ gilTaken = 2
    /\ gil.depth = 1

====
